---- MODULE Spec2Model ----
(***************************************************************************)
(* Model of backend/services/stock_service.py (class StockService): the    *)
(* quote cache, place_order, execute_order and _update_portfolio, run by   *)
(* concurrent asyncio tasks against the orders and portfolio collections,  *)
(* get_portfolio, and the recommendation and risk-score methods.           *)
(*                                                                         *)
(* Conventions                                                             *)
(*  - A coroutine runs atomically between two awaits; every awaited store  *)
(*    operation is one action, together with the local code that follows   *)
(*    it up to the next await.                                             *)
(*  - Python floats are modelled as exact non-negative rationals <<n, d>>  *)
(*    in lowest terms (no rounding).                                       *)
(*  - The store is modelled at its interface: a collection is a sequence   *)
(*    of documents in insertion order, find_one / update_one / delete_one  *)
(*    act on the first document matching the filter, and the identifier    *)
(*    returned by an insert is the key that later addresses the document.  *)
(*  - Any awaited store operation may raise (outcome "error").             *)
(*  - Timestamps of orders and positions are not part of the model.        *)
(***************************************************************************)
EXTENDS Integers, Sequences, FiniteSets, TLC

(* ---------------------------- bounds ----------------------------------- *)
MaxOrders == 2
MaxQty == 2
MaxCalls == 3
MaxBars == 15

(* ---------------------------- domains ---------------------------------- *)
Tasks == {"t1", "t2"}
Users == {"u1"}
Symbols == {"AAPL", "MSFT"}
Prices == {100, 120}
QuotePrices == {110}
StoreOutcomes == {"ok", "error"}
RawSymbols == {"AAPL", "aapl", "MSFT"}
Times == {0, 299, 300, 86400}
PortfolioUsers == {"u1", "u2"}
Closes == {10, 11}

BUY == "buy"
SELL == "sell"
OrderType == {BUY, SELL}

PENDING == "pending"
EXECUTED == "executed"
CANCELLED == "cancelled"
FAILED == "failed"
OrderStatus == {PENDING, EXECUTED, CANCELLED, FAILED}

cache_timeout == 300
SecondsPerDay == 86400

NoDoc == [none |-> TRUE]
NoId == 0

(* ---------------------------- rationals -------------------------------- *)
RECURSIVE GCD(_, _)
GCD(a, b) ==
  IF b = 0 THEN a ELSE GCD(b, a % b)

FNorm(n, d) ==
  LET g == GCD(n, d) IN <<n \div g, d \div g>>

F(n) ==
  <<n, 1>>

FAdd(a, b) ==
  FNorm(a[1] * b[2] + b[1] * a[2], a[2] * b[2])

FSub(a, b) ==
  FNorm(a[1] * b[2] - b[1] * a[2], a[2] * b[2])

FMul(a, b) ==
  FNorm(a[1] * b[1], a[2] * b[2])

FDiv(a, b) ==
  FNorm(a[1] * b[2], a[2] * b[1])

(* ---------------------------- state ------------------------------------ *)
VARIABLES
  cache,      \* self.cache: symbol -> [data, timestamp]
  now,        \* wall clock, seconds
  db,         \* TRUE iff database.db is not None
  orders,     \* db.orders: sequence of order documents, _id = index
  portfolio,  \* db.portfolio: sequence of position documents
  op,         \* per task: the entry point the task runs or has last run
  pc,         \* per task: position in the running coroutine, or how the last call ended
  cur,        \* per task: the local StockOrder of the running call
  oid,        \* per task: inserted_id of place_order / order_id of execute_order
  existing,   \* per task: existing_portfolio read by _update_portfolio
  applied,    \* history: per order id, number of _update_portfolio calls made for it
  settled,    \* history: ids of the orders whose _update_portfolio ran without a store error
  arg,        \* history: per task, the argument of its get_stock_data / get_portfolio call,
              \*          or of its place_order call that failed validation
  ret,        \* per task: the value returned by its get_stock_data / get_portfolio /
              \*           get_stock_analytics call
  calls,      \* history: the get_stock_data calls made by callers, in order
  provider_called,  \* history: TRUE iff the step just taken called the quote provider
  hist        \* the closing prices of the rows stock.history(period="1y") returns, oldest first

vars == <<cache, now, db, orders, portfolio, op, pc, cur, oid, existing, applied, settled,
          arg, ret, calls, provider_called, hist>>

Final == {"idle", "returned", "raised"}

OrderIds == 1..MaxOrders

(* ---------------------------- quote cache ------------------------------ *)
Normalize(symbol) ==
  CASE symbol = "aapl" -> "AAPL"
    [] symbol = " AAPL " -> "AAPL"
    [] symbol = "msft" -> "MSFT"
    [] OTHER -> symbol

Seconds(delta) ==
  delta % SecondsPerDay

CacheFresh(c, t, symbol) ==
  /\ symbol \in DOMAIN c
  /\ Seconds(t - c[symbol].timestamp) < cache_timeout

StockData(symbol, price, t) ==
  [symbol |-> symbol, price |-> price, timestamp |-> t]

\* rows: the closing prices of the rows stock.history returns, oldest first
get_stock_data_raises(c, t, symbol, rows) ==
  /\ ~CacheFresh(c, t, Normalize(symbol))
  /\ rows = <<>>

get_stock_data_cache_skipped(c, t, symbol, rows) ==
  c

get_stock_data_cache(c, t, symbol, rows) ==
  LET s == Normalize(symbol) IN
  IF CacheFresh(c, t, s) \/ rows = <<>> THEN c
  ELSE [k \in DOMAIN c \cup {s} |->
          IF k = s THEN [data |-> StockData(s, rows[Len(rows)], t), timestamp |-> t] ELSE c[k]]

get_stock_data_result(c, t, symbol, rows) ==
  LET s == Normalize(symbol) IN
  IF CacheFresh(c, t, s) THEN c[s].data ELSE StockData(s, rows[Len(rows)], t)

ProviderRows ==
  {<<>>} \cup {<<p>> : p \in QuotePrices}

(* ---------------------------- store helpers ---------------------------- *)
Matches(doc, filter) ==
  doc.user_id = filter.user_id /\ doc.symbol = filter.symbol

MatchIdx(pf, filter) ==
  {i \in 1..Len(pf) : Matches(pf[i], filter)}

Min(S) ==
  CHOOSE x \in S : \A y \in S : x <= y

find_one(pf, filter) ==
  IF MatchIdx(pf, filter) = {} THEN NoDoc ELSE pf[Min(MatchIdx(pf, filter))]

update_one(pf, filter, set) ==
  IF MatchIdx(pf, filter) = {} THEN pf
  ELSE LET i == Min(MatchIdx(pf, filter)) IN
       [pf EXCEPT ![i] = [user_id |-> pf[i].user_id, symbol |-> pf[i].symbol,
                          quantity |-> set.quantity,
                          average_price |-> set.average_price,
                          total_invested |-> set.total_invested]]

insert_one(pf, doc) ==
  Append(pf, doc)

delete_one(pf, filter) ==
  IF MatchIdx(pf, filter) = {} THEN pf
  ELSE LET i == Min(MatchIdx(pf, filter)) IN
       [j \in 1..(Len(pf) - 1) |-> IF j < i THEN pf[j] ELSE pf[j + 1]]

portfolio_filter(order) ==
  [user_id |-> order.user_id, symbol |-> order.symbol]

(* ---------------------------- ledger-update rule ----------------------- *)
\* line 369: the sell branch is taken
SellCovered_any(ex, order) ==
  ex # NoDoc

SellCovered(ex, order) ==
  ex # NoDoc /\ ex.quantity >= order.quantity

\* does _update_portfolio issue a write after reading ex ?
WritesAfterFind(ex, order) ==
  order.order_type = BUY \/ SellCovered(ex, order)

\* lines 339-351: the $set of a buy on an existing position
buy_update_flat(ex, order) ==
  [quantity |-> ex.quantity + order.quantity,
   average_price |-> F(order.price),
   total_invested |-> FAdd(ex.total_invested, F(order.total_amount))]

buy_update(ex, order) ==
  LET new_quantity == ex.quantity + order.quantity
      new_total_invested == FAdd(ex.total_invested, F(order.total_amount))
      new_average_price == FDiv(new_total_invested, F(new_quantity))
  IN [quantity |-> new_quantity,
      average_price |-> new_average_price,
      total_invested |-> new_total_invested]

\* lines 356-365: the position a first buy creates
new_position(order) ==
  [user_id |-> order.user_id, symbol |-> order.symbol,
   quantity |-> order.quantity,
   average_price |-> F(order.price),
   total_invested |-> F(order.total_amount)]

\* lines 371-389: the $set of a partial sell
sell_update_at_price(ex, order) ==
  LET remaining_quantity == ex.quantity - order.quantity
      new_total_invested == FSub(ex.total_invested,
                                 FMul(F(order.quantity), ex.average_price))
  IN [quantity |-> remaining_quantity,
      average_price |-> F(order.price),
      total_invested |-> new_total_invested]

sell_update(ex, order) ==
  LET remaining_quantity == ex.quantity - order.quantity
      sold_ratio == FDiv(F(order.quantity), F(ex.quantity))
      sold_investment == FMul(ex.total_invested, sold_ratio)
      new_total_invested == FSub(ex.total_invested, sold_investment)
      new_average_price == FDiv(new_total_invested, F(remaining_quantity))
  IN [quantity |-> remaining_quantity,
      average_price |-> new_average_price,
      total_invested |-> new_total_invested]

\* lines 375, 391-393: a sell that leaves nothing deletes the position
sell_write_keep_empty(pf, order, ex) ==
  IF ex.quantity - order.quantity > 0
    THEN update_one(pf, portfolio_filter(order), sell_update(ex, order))
    ELSE update_one(pf, portfolio_filter(order),
                    [quantity |-> 0, average_price |-> ex.average_price,
                     total_invested |-> F(0)])

sell_write(pf, order, ex) ==
  IF ex.quantity - order.quantity > 0
    THEN update_one(pf, portfolio_filter(order), sell_update(ex, order))
    ELSE delete_one(pf, portfolio_filter(order))

\* the write _update_portfolio issues for order, having read ex (lines 336-393)
UpdateWrite(pf, order, ex) ==
  IF order.order_type = BUY THEN
    IF ex # NoDoc
      THEN update_one(pf, portfolio_filter(order), buy_update(ex, order))
      ELSE insert_one(pf, new_position(order))
  ELSE
    IF SellCovered(ex, order) THEN sell_write(pf, order, ex) ELSE pf

(* ---------------------------- initial state ---------------------------- *)
Init ==
  /\ cache = <<>>
  /\ now = 0
  /\ db \in BOOLEAN
  /\ orders = <<>>
  /\ portfolio = <<>>
  /\ op = [t \in Tasks |-> "none"]
  /\ pc = [t \in Tasks |-> "idle"]
  /\ cur = [t \in Tasks |-> NoDoc]
  /\ oid = [t \in Tasks |-> NoId]
  /\ existing = [t \in Tasks |-> NoDoc]
  /\ applied = [i \in OrderIds |-> 0]
  /\ settled = {}
  /\ arg = [t \in Tasks |-> NoDoc]
  /\ ret = [t \in Tasks |-> NoDoc]
  /\ calls = <<>>
  /\ provider_called = FALSE
  /\ hist = <<>>

\* the StockOrder bodies a caller may send
ValidDrafts ==
  [user_id : Users, symbol : Symbols, order_type : OrderType,
   quantity : 1..MaxQty, price : Prices, status : OrderStatus]

InvalidDrafts ==
  [user_id : Users, symbol : {"AAPL"}, order_type : {BUY},
   quantity : {0, 1}, price : {0, 100}, status : {EXECUTED}]
    \ ValidDrafts

Drafts ==
  ValidDrafts \cup InvalidDrafts

\* the call of task t ends: its locals are gone; how it ended and the order id
\* it was about (the id of the returned order, or the order_id argument) are kept
Finish(t, how, id) ==
  /\ pc' = [pc EXCEPT ![t] = how]
  /\ cur' = [cur EXCEPT ![t] = NoDoc]
  /\ oid' = [oid EXCEPT ![t] = id]
  /\ existing' = [existing EXCEPT ![t] = NoDoc]

\* a step that makes no get_stock_data call
NoQuoteCall ==
  /\ provider_called' = FALSE
  /\ UNCHANGED <<ret, calls, hist>>

(* ---------------------------- place_order ------------------------------ *)
\* lines 79-82
validation_fails_quantity(order) ==
  order.quantity <= 0

validation_fails(order) ==
  order.quantity <= 0 \/ order.price <= 0

\* lines 77-90 and, without a database, 99-102
place_order_begin(t, draft, rows) ==
  /\ pc[t] \in Final
  /\ Len(orders) + Cardinality({u \in Tasks : pc[u] = "place_insert"}) < MaxOrders
  /\ op' = [op EXCEPT ![t] = "place_order"]
  /\ UNCHANGED <<ret, calls, hist>>
  /\ IF validation_fails(draft) THEN
       /\ Finish(t, "raised", NoId)
       /\ cache' = cache
       /\ provider_called' = FALSE
       /\ arg' = [arg EXCEPT ![t] = draft]
     ELSE IF get_stock_data_raises(cache, now, draft.symbol, rows) THEN
       /\ Finish(t, "raised", NoId)
       /\ cache' = cache
       /\ provider_called' = TRUE
       /\ arg' = [arg EXCEPT ![t] = NoDoc]
     ELSE
       /\ cache' = get_stock_data_cache(cache, now, draft.symbol, rows)
       /\ provider_called' = ~CacheFresh(cache, now, Normalize(draft.symbol))
       /\ arg' = [arg EXCEPT ![t] = NoDoc]
       /\ IF db THEN
            /\ pc' = [pc EXCEPT ![t] = "place_insert"]
            /\ cur' = [cur EXCEPT ![t] =
                         [user_id |-> draft.user_id, symbol |-> draft.symbol,
                          order_type |-> draft.order_type, quantity |-> draft.quantity,
                          price |-> draft.price,
                          total_amount |-> draft.quantity * draft.price,
                          status |-> draft.status]]
            /\ oid' = [oid EXCEPT ![t] = NoId]
            /\ existing' = [existing EXCEPT ![t] = NoDoc]
          ELSE
            Finish(t, "returned", <<"order", now>>)
  /\ UNCHANGED <<now, db, orders, portfolio, applied, settled>>

\* lines 93-98: db.orders.insert_one, then the status test
place_order_insert(t, outcome) ==
  /\ NoQuoteCall
  /\ arg' = arg
  /\ pc[t] = "place_insert"
  /\ IF outcome = "error" THEN
       /\ Finish(t, "raised", NoId)
       /\ UNCHANGED <<orders, applied>>
     ELSE
       /\ orders' = Append(orders, cur[t])
       /\ IF cur[t].status = EXECUTED THEN
            /\ pc' = [pc EXCEPT ![t] = "update_find"]
            /\ oid' = [oid EXCEPT ![t] = Len(orders) + 1]
            /\ applied' = [applied EXCEPT ![Len(orders) + 1] = @ + 1]
            /\ UNCHANGED <<cur, existing>>
          ELSE
            /\ Finish(t, "returned", Len(orders) + 1)
            /\ applied' = applied
  /\ UNCHANGED <<cache, now, db, portfolio, op, settled>>

(* ---------------------------- execute_order ---------------------------- *)
\* modified_count of update_one({"_id": order_id}, {"$set": {"status": EXECUTED}})
matched_count(ords, order_id) ==
  IF order_id \in DOMAIN ords THEN 1 ELSE 0

modified_count(ords, order_id) ==
  IF order_id \in DOMAIN ords /\ ords[order_id].status # EXECUTED THEN 1 ELSE 0

set_status_executed(ords, order_id) ==
  IF order_id \in DOMAIN ords THEN [ords EXCEPT ![order_id].status = EXECUTED] ELSE ords

\* lines 110-120
execute_order_update(t, order_id, outcome) ==
  /\ pc[t] \in Final
  /\ NoQuoteCall
  /\ arg' = [arg EXCEPT ![t] = NoDoc]
  /\ op' = [op EXCEPT ![t] = "execute_order"]
  /\ IF ~db \/ outcome = "error" THEN
       /\ Finish(t, "raised", order_id)
       /\ orders' = orders
     ELSE
       /\ orders' = set_status_executed(orders, order_id)
       /\ IF modified_count(orders, order_id) = 0 THEN
            Finish(t, "raised", order_id)
          ELSE
            /\ pc' = [pc EXCEPT ![t] = "execute_find"]
            /\ oid' = [oid EXCEPT ![t] = order_id]
            /\ cur' = [cur EXCEPT ![t] = NoDoc]
            /\ existing' = [existing EXCEPT ![t] = NoDoc]
  /\ UNCHANGED <<cache, now, db, portfolio, applied, settled>>

\* lines 123-127: db.orders.find_one, StockOrder(**order_doc), call of _update_portfolio
execute_order_find(t, outcome) ==
  /\ NoQuoteCall
  /\ arg' = arg
  /\ pc[t] = "execute_find"
  /\ IF outcome = "error" THEN
       /\ Finish(t, "raised", oid[t])
       /\ applied' = applied
     ELSE
       /\ cur' = [cur EXCEPT ![t] = orders[oid[t]]]
       /\ applied' = [applied EXCEPT ![oid[t]] = @ + 1]
       /\ pc' = [pc EXCEPT ![t] = "update_find"]
       /\ UNCHANGED <<oid, existing>>
  /\ UNCHANGED <<cache, now, db, orders, portfolio, op, settled>>

(* ---------------------------- _update_portfolio ------------------------ *)
\* lines 329-336, 368-369: db.portfolio.find_one and the branch taken on its result;
\* an exception is printed (lines 395-396) and the caller returns the order
update_portfolio_find(t, outcome) ==
  /\ NoQuoteCall
  /\ arg' = arg
  /\ pc[t] = "update_find"
  /\ IF outcome = "error" THEN
       /\ Finish(t, "returned", oid[t])
       /\ settled' = settled
     ELSE
       LET ex == find_one(portfolio, portfolio_filter(cur[t])) IN
       IF WritesAfterFind(ex, cur[t]) THEN
         /\ existing' = [existing EXCEPT ![t] = ex]
         /\ pc' = [pc EXCEPT ![t] = "update_write"]
         /\ UNCHANGED <<cur, oid, settled>>
       ELSE
         /\ Finish(t, "returned", oid[t])
         /\ settled' = settled \cup {oid[t]}
  /\ UNCHANGED <<cache, now, db, orders, portfolio, op, applied>>

\* lines 337-366, 370-393: the update_one / insert_one / delete_one of the branch
update_portfolio_write(t, outcome) ==
  /\ NoQuoteCall
  /\ arg' = arg
  /\ pc[t] = "update_write"
  /\ IF outcome = "error" THEN
       UNCHANGED <<portfolio, settled>>
     ELSE
       /\ portfolio' = UpdateWrite(portfolio, cur[t], existing[t])
       /\ settled' = settled \cup {oid[t]}
  /\ Finish(t, "returned", oid[t])
  /\ UNCHANGED <<cache, now, db, orders, op, applied>>

(* ---------------------------- get_stock_data -------------------------- *)
\* lines 17-73, called by a route: the cache test, the provider fetch, the cache
\* write and the result; the insert into db.stocks that follows a fetch cannot
\* fail the call (lines 64-68) and the stocks collection is never read
get_stock_data(t, symbol, rows) ==
  /\ pc[t] \in Final
  /\ Len(calls) < MaxCalls
  /\ op' = [op EXCEPT ![t] = "get_stock_data"]
  /\ arg' = [arg EXCEPT ![t] = symbol]
  /\ provider_called' = ~CacheFresh(cache, now, Normalize(symbol))
  /\ cache' = get_stock_data_cache(cache, now, symbol, rows)
  /\ IF get_stock_data_raises(cache, now, symbol, rows) THEN
       /\ Finish(t, "raised", NoId)
       /\ ret' = [ret EXCEPT ![t] = NoDoc]
     ELSE
       /\ Finish(t, "returned", NoId)
       /\ ret' = [ret EXCEPT ![t] = get_stock_data_result(cache, now, symbol, rows)]
  /\ calls' = Append(calls, [symbol |-> symbol, time |-> now,
                             fetched |-> provider_called', result |-> ret'[t]])
  /\ UNCHANGED <<now, db, orders, portfolio, applied, settled, hist>>

\* the wall clock moves on to a later reading
Tick(later) ==
  /\ later > now
  /\ now' = later
  /\ provider_called' = FALSE
  /\ UNCHANGED <<hist, cache, db, orders, portfolio, op, pc, cur, oid, existing, applied,
                 settled, arg, ret, calls>>

(* ---------------------------- get_portfolio ---------------------------- *)
\* lines 147-159: the Portfolio built from a stored document and a quote
Portfolio_at_cost(doc, current_data) ==
  LET current_value == FMul(F(doc.quantity), doc.average_price) IN
  [user_id |-> doc.user_id, symbol |-> doc.symbol, quantity |-> doc.quantity,
   average_price |-> doc.average_price, total_invested |-> doc.total_invested,
   current_value |-> current_value,
   unrealized_pnl |-> FSub(current_value, doc.total_invested)]

Portfolio(doc, current_data) ==
  LET current_value == FMul(F(doc.quantity), F(current_data.price)) IN
  [user_id |-> doc.user_id, symbol |-> doc.symbol, quantity |-> doc.quantity,
   average_price |-> doc.average_price, total_invested |-> doc.total_invested,
   current_value |-> current_value,
   unrealized_pnl |-> FSub(current_value, doc.total_invested)]

\* lines 143-162: the loop over the documents read; rowsOf gives, per symbol,
\* the rows the provider returns when it is asked during this call
RECURSIVE portfolio_loop(_, _, _, _)
portfolio_loop(docs, c, t, rowsOf) ==
  IF docs = <<>> THEN [portfolios |-> <<>>, cache |-> c]
  ELSE
    LET doc == Head(docs)
        rows == rowsOf[Normalize(doc.symbol)]
        rest == portfolio_loop(Tail(docs), get_stock_data_cache(c, t, doc.symbol, rows),
                               t, rowsOf)
    IN IF get_stock_data_raises(c, t, doc.symbol, rows) THEN rest
       ELSE [rest EXCEPT !.portfolios =
               <<Portfolio(doc, get_stock_data_result(c, t, doc.symbol, rows))>> \o @]

user_docs(pf, user_id) ==
  SelectSeq(pf, LAMBDA doc : doc.user_id = user_id)

\* lines 136-167
get_portfolio(t, user_id, outcome, rowsOf) ==
  /\ pc[t] \in Final
  /\ op' = [op EXCEPT ![t] = "get_portfolio"]
  /\ arg' = [arg EXCEPT ![t] = user_id]
  /\ IF ~db THEN
       /\ Finish(t, "returned", NoId)
       /\ ret' = [ret EXCEPT ![t] = <<>>]
       /\ cache' = cache
       /\ provider_called' = FALSE
     ELSE IF outcome = "error" THEN
       /\ Finish(t, "raised", NoId)
       /\ ret' = [ret EXCEPT ![t] = NoDoc]
       /\ cache' = cache
       /\ provider_called' = FALSE
     ELSE
       LET docs == user_docs(portfolio, user_id)
           r == portfolio_loop(docs, cache, now, rowsOf)
       IN /\ Finish(t, "returned", NoId)
          /\ ret' = [ret EXCEPT ![t] = r.portfolios]
          /\ cache' = r.cache
          /\ provider_called' =
               \E i \in 1..Len(docs) : ~CacheFresh(cache, now, Normalize(docs[i].symbol))
  /\ UNCHANGED <<now, db, orders, portfolio, applied, settled, calls, hist>>

(* ---------------------------- analytics -------------------------------- *)
\* a dictionary entry: the key is absent, or its value is None, or a number
Absent == [kind |-> "absent"]
Null == [kind |-> "null"]
Num(x) == [kind |-> "num", v |-> x]

\* dict.get(key, default): the default replaces an absent key only
dict_get(entry, default) ==
  IF entry = Absent THEN Num(F(default)) ELSE entry

FLt(a, b) ==
  a[1] * b[2] < b[1] * a[2]

OVERSOLD == "RSI indicates oversold conditions - potential buy signal"
OVERBOUGHT == "RSI indicates overbought conditions - consider taking profits"
BULLISH == "MACD is above signal line - bullish momentum"
BEARISH == "MACD is below signal line - bearish momentum"
LOW_PE == "Low P/E ratio suggests good value"
HIGH_PE == "High P/E ratio - evaluate growth prospects"
HIGH_DEBT == "High debt levels - increased risk"
NEUTRAL == "No strong signals - maintain current position"
UNABLE == "Unable to generate recommendations"

\* lines 273-276
rsi_note_inclusive(rsi) ==
  IF ~FLt(F(30), rsi.v) THEN <<OVERSOLD>>
  ELSE IF ~FLt(rsi.v, F(70)) THEN <<OVERBOUGHT>> ELSE <<>>

rsi_note(rsi) ==
  IF FLt(rsi.v, F(30)) THEN <<OVERSOLD>>
  ELSE IF FLt(F(70), rsi.v) THEN <<OVERBOUGHT>> ELSE <<>>

\* lines 267-298; comparing None with a number raises TypeError, and the
\* handler at lines 295-296 appends UNABLE to the notes collected so far
_generate_recommendations(technical, fundamental) ==
  LET rsi == dict_get(technical.rsi, 50)
      macd == dict_get(technical.macd, 0)
      macd_signal == dict_get(technical.macd_signal, 0)
      pe_ratio == dict_get(fundamental.pe_ratio, 0)
      debt_to_equity == dict_get(fundamental.debt_to_equity, 0)
      r1 == rsi_note(rsi)
      r2 == r1 \o (IF FLt(macd_signal.v, macd.v) THEN <<BULLISH>> ELSE <<BEARISH>>)
      r3 == r2 \o (IF FLt(pe_ratio.v, F(15)) THEN <<LOW_PE>>
                   ELSE IF FLt(F(25), pe_ratio.v) THEN <<HIGH_PE>> ELSE <<>>)
      r4 == r3 \o (IF FLt(F(1), debt_to_equity.v) THEN <<HIGH_DEBT>> ELSE <<>>)
  IN IF rsi = Null THEN <<UNABLE>>
     ELSE IF pe_ratio = Null THEN r2 \o <<UNABLE>>
     ELSE IF debt_to_equity = Null THEN r3 \o <<UNABLE>>
     ELSE IF r4 = <<>> THEN <<NEUTRAL>> ELSE r4

\* lines 300-325; a None operand raises TypeError and line 325 returns 50.0
_calculate_risk_score(technical, fundamental) ==
  LET rsi == dict_get(technical.rsi, 50)
      pe_ratio == dict_get(fundamental.pe_ratio, 0)
      debt_equity == dict_get(fundamental.debt_to_equity, 0)
  IN IF rsi = Null \/ pe_ratio = Null \/ debt_equity = Null THEN 50
     ELSE LET risk_score ==
                50 + (IF FLt(rsi.v, F(20)) \/ FLt(F(80), rsi.v) THEN 20 ELSE 0)
                   + (IF FLt(F(30), pe_ratio.v) THEN 15 ELSE 0)
                   + (IF FLt(<<3, 2>>, debt_equity.v) THEN 25 ELSE 0)
          IN IF risk_score > 100 THEN 100 ELSE risk_score

\* the dictionaries the two methods are applied to
RsiValues == {F(15), F(20), F(30), F(50), F(80), F(85)}
MacdPairs == {<<Num(F(2)), Num(F(1))>>, <<Num(F(0)), Num(F(1))>>, <<Absent, Absent>>}
PeValues == {F(10), F(15), F(25), F(30), F(35)}
DebtValues == {F(1), <<3, 2>>, F(2)}

Entries(values) ==
  {Absent, Null} \cup {Num(x) : x \in values}

Technicals ==
  {[rsi |-> r, macd |-> m[1], macd_signal |-> m[2]] : r \in Entries(RsiValues), m \in MacdPairs}

Fundamentals ==
  [pe_ratio : Entries(PeValues), debt_to_equity : Entries(DebtValues)]

\* lines 204-223 of get_stock_analytics: both methods applied to the indicators
\* and fundamentals of a symbol (the route passes fundamentals with every key
\* present, a direct caller may omit keys)
get_stock_analytics(t, technical, fundamental) ==
  /\ pc[t] \in Final
  /\ op' = [op EXCEPT ![t] = "get_stock_analytics"]
  /\ Finish(t, "returned", NoId)
  /\ arg' = [arg EXCEPT ![t] = NoDoc]
  /\ ret' = [ret EXCEPT ![t] =
               [technical_indicators |-> technical,
                fundamental_metrics |-> fundamental,
                recommendations |-> _generate_recommendations(technical, fundamental),
                risk_score |-> _calculate_risk_score(technical, fundamental)]]
  /\ provider_called' = FALSE
  /\ UNCHANGED <<cache, now, db, orders, portfolio, applied, settled, calls, hist>>

(* ---------------------------- technical indicators --------------------- *)
\* float results that are not numbers, and the value of an exponentially
\* weighted mean (lines 242-245), which is a number for every non-empty series
\* and is not evaluated here
NaN == [kind |-> "nan"]
Inf == [kind |-> "inf"]
Ewm == [kind |-> "ewm"]

RECURSIVE Sum(_)
Sum(xs) ==
  IF xs = <<>> THEN F(0) ELSE FAdd(Head(xs), Sum(Tail(xs)))

Mean(xs) ==
  FDiv(Sum(xs), F(Len(xs)))

\* the last n elements of xs
Trailing(xs, n) ==
  SubSeq(xs, Len(xs) - n + 1, Len(xs))

\* exact root of the square of a rational
Sqrt(q) ==
  LET root(n) == CHOOSE r \in 0..n : r * r = n IN <<root(q[1]), root(q[2])>>

\* Series.rolling(window=w).mean().iloc[-1]: NaN until w observations exist
rolling_mean_partial(xs, window) ==
  Num(Mean(Trailing(xs, IF Len(xs) < window THEN Len(xs) ELSE window)))

rolling_mean(xs, window) ==
  IF Len(xs) < window THEN NaN ELSE Num(Mean(Trailing(xs, window)))

\* Series.rolling(window=w).std().iloc[-1], the sample standard deviation
rolling_std(xs, window) ==
  IF Len(xs) < window THEN NaN
  ELSE LET w == Trailing(xs, window)
           m == Mean(w)
           squares == [i \in 1..window |-> FMul(FSub(w[i], m), FSub(w[i], m))]
       IN Num(Sqrt(FDiv(Sum(squares), F(window - 1))))

\* lines 235-237: delta.where(delta > 0, 0) and -delta.where(delta < 0, 0); the
\* first delta is NaN and fails both tests
gain(xs) ==
  [i \in 1..Len(xs) |->
     IF i > 1 /\ FLt(xs[i - 1], xs[i]) THEN FSub(xs[i], xs[i - 1]) ELSE F(0)]

loss(xs) ==
  [i \in 1..Len(xs) |->
     IF i > 1 /\ FLt(xs[i], xs[i - 1]) THEN FSub(xs[i - 1], xs[i]) ELSE F(0)]

\* float division of non-negative operands: x / 0 is inf, 0 / 0 is NaN
float_div(a, b) ==
  IF a = NaN \/ b = NaN THEN NaN
  ELSE IF b.v = F(0) THEN (IF a.v = F(0) THEN NaN ELSE Inf)
  ELSE Num(FDiv(a.v, b.v))

\* line 239: 100 - (100 / (1 + rs))
rsi_of(rs) ==
  IF rs = NaN THEN NaN
  ELSE IF rs = Inf THEN Num(F(100))
  ELSE Num(FSub(F(100), FDiv(F(100), FAdd(F(1), rs.v))))

\* lines 250-251: bb_20 + (bb_std * 2) and bb_20 - (bb_std * 2)
bb_upper(bb_20, bb_std) ==
  IF bb_20 = NaN \/ bb_std = NaN THEN NaN ELSE Num(FAdd(bb_20.v, FMul(bb_std.v, F(2))))

bb_lower(bb_20, bb_std) ==
  IF bb_20 = NaN \/ bb_std = NaN THEN NaN ELSE Num(FSub(bb_20.v, FMul(bb_std.v, F(2))))

\* lines 254-261: float(x) if not pd.isna(x) else default
float_or(x, default) ==
  IF x = NaN THEN F(default) ELSE IF x = Ewm THEN Ewm ELSE x.v

\* lines 227-265; on an empty history .iloc[-1] raises and line 265 returns {}
_calculate_technical_indicators(closes) ==
  IF closes = <<>> THEN <<>>
  ELSE
    LET close_prices == [i \in 1..Len(closes) |-> F(closes[i])]
        sma_20 == rolling_mean(close_prices, 20)
        sma_50 == rolling_mean(close_prices, 50)
        rs == float_div(rolling_mean(gain(close_prices), 14),
                        rolling_mean(loss(close_prices), 14))
        rsi == rsi_of(rs)
        bb_20 == rolling_mean(close_prices, 20)
        bb_std == rolling_std(close_prices, 20)
    IN [sma_20 |-> float_or(sma_20, 0), sma_50 |-> float_or(sma_50, 0),
        rsi |-> float_or(rsi, 50),
        macd |-> float_or(Ewm, 0), macd_signal |-> float_or(Ewm, 0),
        bb_upper |-> float_or(bb_upper(bb_20, bb_std), 0),
        bb_lower |-> float_or(bb_lower(bb_20, bb_std), 0),
        bb_middle |-> float_or(bb_20, 0)]

\* the provider's history as it stands when the indicators are asked for
history_bar(close) ==
  /\ Len(hist) < MaxBars
  /\ \A t \in Tasks : pc[t] = "idle"
  /\ hist' = Append(hist, close)
  /\ provider_called' = FALSE
  /\ UNCHANGED <<cache, now, db, orders, portfolio, op, pc, cur, oid, existing, applied,
                 settled, arg, ret, calls>>

\* line 180: the call of _calculate_technical_indicators(hist)
calculate_technical_indicators(t) ==
  /\ pc[t] \in Final
  /\ op' = [op EXCEPT ![t] = "_calculate_technical_indicators"]
  /\ Finish(t, "returned", NoId)
  /\ arg' = [arg EXCEPT ![t] = NoDoc]
  /\ ret' = [ret EXCEPT ![t] = _calculate_technical_indicators(hist)]
  /\ provider_called' = FALSE
  /\ UNCHANGED <<cache, now, db, orders, portfolio, applied, settled, calls, hist>>

(* ---------------------------- chatbot: text ---------------------------- *)
\* a str is a sequence of one-character strings
LowerCase == <<"a", "b", "c", "d", "e", "f", "g", "h", "i", "j", "k", "l", "m", "n", "o", "p", "q", "r", "s", "t", "u", "v", "w", "x", "y", "z">>
UpperCase == <<"A", "B", "C", "D", "E", "F", "G", "H", "I", "J", "K", "L", "M", "N", "O", "P", "Q", "R", "S", "T", "U", "V", "W", "X", "Y", "Z">>
Digits == <<"0", "1", "2", "3", "4", "5", "6", "7", "8", "9">>

CharSet(chars) ==
  {chars[i] : i \in 1..Len(chars)}

Letters ==
  CharSet(LowerCase) \cup CharSet(UpperCase)

\* str.lower()
lower(s) ==
  [i \in 1..Len(s) |->
     IF s[i] \in CharSet(UpperCase)
       THEN LowerCase[CHOOSE j \in 1..Len(UpperCase) : UpperCase[j] = s[i]]
       ELSE s[i]]

\* str.upper()
upper(s) ==
  [i \in 1..Len(s) |->
     IF s[i] \in CharSet(LowerCase)
       THEN UpperCase[CHOOSE j \in 1..Len(LowerCase) : LowerCase[j] = s[i]]
       ELSE s[i]]

\* str.strip()
RECURSIVE strip(_)
strip(s) ==
  IF s = <<>> THEN s
  ELSE IF Head(s) = " " THEN strip(Tail(s))
  ELSE IF s[Len(s)] = " " THEN strip(SubSeq(s, 1, Len(s) - 1))
  ELSE s

\* "sub in s"
contains(s, sub) ==
  \E p \in 1..(Len(s) - Len(sub) + 1) : SubSeq(s, p, p + Len(sub) - 1) = sub

\* str.isdigit() and int(str) for a run of decimal digits
isdigit(s) ==
  s # <<>> /\ \A i \in 1..Len(s) : s[i] \in CharSet(Digits)

RECURSIVE int(_)
int(s) ==
  IF s = <<>> THEN 0
  ELSE 10 * int(SubSeq(s, 1, Len(s) - 1))
       + (CHOOSE d \in 0..9 : Digits[d + 1] = s[Len(s)])

\* the length of the longest run of characters of class at position p of s
RECURSIVE Run(_, _, _)
Run(s, p, class) ==
  IF p > Len(s) \/ s[p] \notin class THEN 0 ELSE 1 + Run(s, p + 1, class)

\* re: a pattern is a sequence of literals, \s+, (\d+), ([A-Za-z]+) and x?; every
\* repetition in the patterns of this file is followed by a character outside
\* its class, so the greedy match is the longest run
NoMatch == [ok |-> FALSE]

Lit(s) == [k |-> "lit", s |-> s]
Opt(c) == [k |-> "opt", s |-> <<c>>]
Ws == [k |-> "ws"]
DigitsGroup == [k |-> "digits"]
LettersGroup == [k |-> "alpha"]
\* ([A-Za-z]{3,5}), followed in its pattern by nothing or by a character that is no letter
SymbolGroup == [k |-> "alpha35"]

RECURSIVE match_at(_, _, _, _, _)
match_at(pattern, i, s, p, groups) ==
  IF i > Len(pattern) THEN [ok |-> TRUE, groups |-> groups]
  ELSE
    LET e == pattern[i] IN
    CASE e.k = "lit" ->
           IF p + Len(e.s) - 1 <= Len(s) /\ SubSeq(s, p, p + Len(e.s) - 1) = e.s
             THEN match_at(pattern, i + 1, s, p + Len(e.s), groups) ELSE NoMatch
      [] e.k = "opt" ->
           IF p <= Len(s) /\ <<s[p]>> = e.s
             THEN match_at(pattern, i + 1, s, p + 1, groups)
             ELSE match_at(pattern, i + 1, s, p, groups)
      [] e.k = "ws" ->
           LET n == Run(s, p, {" "}) IN
           IF n = 0 THEN NoMatch ELSE match_at(pattern, i + 1, s, p + n, groups)
      [] e.k = "digits" ->
           LET n == Run(s, p, CharSet(Digits)) IN
           IF n = 0 THEN NoMatch
           ELSE match_at(pattern, i + 1, s, p + n, Append(groups, SubSeq(s, p, p + n - 1)))
      [] e.k = "alpha" ->
           LET n == Run(s, p, Letters) IN
           IF n = 0 THEN NoMatch
           ELSE match_at(pattern, i + 1, s, p + n, Append(groups, SubSeq(s, p, p + n - 1)))
      [] e.k = "alpha35" ->
           LET n == Run(s, p, Letters)
               m == IF n > 5 THEN 5 ELSE n
           IN IF n < 3 THEN NoMatch
              ELSE match_at(pattern, i + 1, s, p + m, Append(groups, SubSeq(s, p, p + m - 1)))

\* re.search(pattern, s): the match at the leftmost position that has one
re_search(pattern, s) ==
  LET starts == {p \in 1..(Len(s) + 1) : match_at(pattern, 1, s, p, <<>>).ok}
  IN IF starts = {} THEN NoMatch
     ELSE [ok |-> TRUE, start |-> Min(starts),
           groups |-> match_at(pattern, 1, s, Min(starts), <<>>).groups]

(* ---------------------------- chatbot: commands ------------------------ *)
\* lines 10-52: self.command_patterns
buy_stock_patterns ==
  <<<<Lit(<<"b", "u", "y">>), Ws, DigitsGroup, Ws, Lit(<<"s", "h", "a", "r", "e">>), Opt("s"), Ws, Lit(<<"o", "f">>), Ws, LettersGroup>>,
    <<Lit(<<"b", "u", "y">>), Ws, LettersGroup, Ws, DigitsGroup, Ws, Lit(<<"s", "h", "a", "r", "e">>), Opt("s")>>,
    <<Lit(<<"p", "u", "r", "c", "h", "a", "s", "e">>), Ws, DigitsGroup, Ws, LettersGroup>>,
    <<Lit(<<"b", "u", "y">>), Ws, LettersGroup, Ws, Lit(<<"a", "t">>), Ws, Lit(<<"m", "a", "r", "k", "e", "t">>)>>,
    <<Lit(<<"b", "u", "y">>), Ws, DigitsGroup, Ws, LettersGroup, Ws, Lit(<<"a", "t">>), Ws, Lit(<<"m", "a", "r", "k", "e", "t">>)>>>>

sell_stock_patterns ==
  <<<<Lit(<<"s", "e", "l", "l">>), Ws, DigitsGroup, Ws, Lit(<<"s", "h", "a", "r", "e">>), Opt("s"), Ws, Lit(<<"o", "f">>), Ws, LettersGroup>>,
    <<Lit(<<"s", "e", "l", "l">>), Ws, LettersGroup, Ws, DigitsGroup, Ws, Lit(<<"s", "h", "a", "r", "e">>), Opt("s")>>,
    <<Lit(<<"s", "e", "l", "l">>), Ws, LettersGroup, Ws, Lit(<<"a", "t">>), Ws, Lit(<<"m", "a", "r", "k", "e", "t">>)>>,
    <<Lit(<<"s", "e", "l", "l">>), Ws, DigitsGroup, Ws, LettersGroup, Ws, Lit(<<"a", "t">>), Ws, Lit(<<"m", "a", "r", "k", "e", "t">>)>>>>

get_price_patterns ==
  <<<<Lit(<<"w", "h", "a", "t">>), Ws, Lit(<<"i", "s">>), Ws, Lit(<<"t", "h", "e">>), Ws, Lit(<<"p", "r", "i", "c", "e">>), Ws, Lit(<<"o", "f">>), Ws, LettersGroup>>,
    <<Lit(<<"p", "r", "i", "c", "e">>), Ws, Lit(<<"o", "f">>), Ws, LettersGroup>>,
    <<Lit(<<"h", "o", "w">>), Ws, Lit(<<"m", "u", "c", "h">>), Ws, Lit(<<"i", "s">>), Ws, LettersGroup>>,
    <<LettersGroup, Ws, Lit(<<"s", "t", "o", "c", "k">>), Ws, Lit(<<"p", "r", "i", "c", "e">>)>>,
    <<Lit(<<"c", "u", "r", "r", "e", "n", "t">>), Ws, Lit(<<"p", "r", "i", "c", "e">>), Ws, Lit(<<"o", "f">>), Ws, LettersGroup>>>>

get_analytics_patterns ==
  <<<<Lit(<<"a", "n", "a", "l", "y", "z", "e">>), Ws, LettersGroup>>,
    <<Lit(<<"a", "n", "a", "l", "y", "t", "i", "c", "s">>), Ws, Lit(<<"f", "o", "r">>), Ws, LettersGroup>>,
    <<Lit(<<"t", "e", "c", "h", "n", "i", "c", "a", "l">>), Ws, Lit(<<"a", "n", "a", "l", "y", "s", "i", "s">>), Ws, Lit(<<"o", "f">>), Ws, LettersGroup>>,
    <<Lit(<<"f", "u", "n", "d", "a", "m", "e", "n", "t", "a", "l">>), Ws, Lit(<<"a", "n", "a", "l", "y", "s", "i", "s">>), Ws, Lit(<<"o", "f">>), Ws, LettersGroup>>,
    <<Lit(<<"r", "i", "s", "k">>), Ws, Lit(<<"a", "s", "s", "e", "s", "s", "m", "e", "n", "t">>), Ws, Lit(<<"o", "f">>), Ws, LettersGroup>>,
    <<Lit(<<"r", "e", "c", "o", "m", "m", "e", "n", "d", "a", "t", "i", "o", "n", "s">>), Ws, Lit(<<"f", "o", "r">>), Ws, LettersGroup>>>>

get_portfolio_patterns ==
  <<<<Lit(<<"s", "h", "o", "w">>), Ws, Lit(<<"m", "y">>), Ws, Lit(<<"p", "o", "r", "t", "f", "o", "l", "i", "o">>)>>,
    <<Lit(<<"p", "o", "r", "t", "f", "o", "l", "i", "o">>), Ws, Lit(<<"s", "u", "m", "m", "a", "r", "y">>)>>,
    <<Lit(<<"m", "y">>), Ws, Lit(<<"i", "n", "v", "e", "s", "t", "m", "e", "n", "t", "s">>)>>,
    <<Lit(<<"c", "u", "r", "r", "e", "n", "t">>), Ws, Lit(<<"p", "o", "s", "i", "t", "i", "o", "n", "s">>)>>,
    <<Lit(<<"p", "o", "r", "t", "f", "o", "l", "i", "o">>), Ws, Lit(<<"s", "t", "a", "t", "u", "s">>)>>>>

get_orders_patterns ==
  <<<<Lit(<<"s", "h", "o", "w">>), Ws, Lit(<<"m", "y">>), Ws, Lit(<<"o", "r", "d", "e", "r", "s">>)>>,
    <<Lit(<<"o", "r", "d", "e", "r">>), Ws, Lit(<<"h", "i", "s", "t", "o", "r", "y">>)>>,
    <<Lit(<<"p", "e", "n", "d", "i", "n", "g">>), Ws, Lit(<<"o", "r", "d", "e", "r", "s">>)>>,
    <<Lit(<<"m", "y">>), Ws, Lit(<<"t", "r", "a", "d", "e", "s">>)>>>>

any_pattern(patterns, message) ==
  \E i \in 1..Len(patterns) : re_search(patterns[i], message).ok

\* "any(word in message for word in words)"
any_word(words, message) ==
  \E i \in 1..Len(words) : contains(message, words[i])

\* line 82, line 86, lines 130 and 133
help_words == <<<<"h", "e", "l", "p">>, <<"c", "o", "m", "m", "a", "n", "d", "s">>, <<"w", "h", "a", "t", " ", "c", "a", "n", " ", "y", "o", "u", " ", "d", "o">>>>
greeting_words == <<<<"h", "e", "l", "l", "o">>, <<"h", "i">>, <<"h", "e", "y">>, <<"s", "t", "a", "r", "t">>>>
sell_keywords == <<<<"s", "e", "l", "l">>, <<"s", "e", "l", "l", " ", "o", "f", "f">>, <<"l", "i", "q", "u", "i", "d", "a", "t", "e">>, <<"e", "x", "i", "t", " ", "p", "o", "s", "i", "t", "i", "o", "n">>>>
asking_words == <<<<"w", "h", "a", "t", " ", "i", "f">>, <<"w", "h", "a", "t", " ", "w", "o", "u", "l", "d">>, <<"h", "o", "w", " ", "m", "u", "c", "h">>, <<"w", "h", "e", "n">>>>

\* lines 115-120
_is_buy_command(message) ==
  any_pattern(buy_stock_patterns, message)

\* lines 122-136
_is_sell_command(message) ==
  \/ any_pattern(sell_stock_patterns, message)
  \/ any_word(sell_keywords, message) /\ ~any_word(asking_words, message)

\* lines 138-164
_is_price_query(message) ==
  any_pattern(get_price_patterns, message)

_is_analytics_query(message) ==
  any_pattern(get_analytics_patterns, message)

_is_portfolio_query(message) ==
  any_pattern(get_portfolio_patterns, message)

_is_orders_query(message) ==
  any_pattern(get_orders_patterns, message)

\* lines 79-110: the return statement process_message reaches for a message, the
\* tests made in the order of the code
handler_of(message) ==
  IF any_word(help_words, message) THEN "help_text"
  ELSE IF any_word(greeting_words, message) THEN "greeting"
  ELSE IF _is_buy_command(message) THEN "_handle_buy_command"
  ELSE IF _is_sell_command(message) THEN "_handle_sell_command"
  ELSE IF _is_price_query(message) THEN "_handle_price_query"
  ELSE IF _is_analytics_query(message) THEN "_handle_analytics_query"
  ELSE IF _is_portfolio_query(message) THEN "_handle_portfolio_query"
  ELSE IF _is_orders_query(message) THEN "_handle_orders_query"
  ELSE "default"

\* lines 393-398
extract_patterns(action) ==
  <<<<Lit(action), Ws, DigitsGroup, Ws, Lit(<<"s", "h", "a", "r", "e">>), Opt("s"), Ws, Lit(<<"o", "f">>), Ws, LettersGroup>>,
    <<Lit(action), Ws, LettersGroup, Ws, DigitsGroup, Ws, Lit(<<"s", "h", "a", "r", "e">>), Opt("s")>>,
    <<Lit(action), Ws, DigitsGroup, Ws, LettersGroup>>,
    <<Lit(action), Ws, LettersGroup, Ws, Lit(<<"a", "t">>), Ws, Lit(<<"m", "a", "r", "k", "e", "t">>)>>>>

\* the pair (None, None)
NoneNone == [found |-> FALSE]

\* lines 400-415: the loop over the patterns from the i-th on
RECURSIVE extract_loop(_, _, _)
extract_loop(patterns, i, message) ==
  IF i > Len(patterns) THEN NoneNone
  ELSE
    LET match == re_search(patterns[i], message) IN
    IF ~match.ok THEN extract_loop(patterns, i + 1, message)
    ELSE IF contains(message, <<"a", "t", " ", "m", "a", "r", "k", "e", "t">>)
      THEN [found |-> TRUE, quantity |-> 1, symbol |-> match.groups[1]]
    ELSE IF Len(match.groups) = 2 THEN
      IF isdigit(match.groups[1])
        THEN [found |-> TRUE, quantity |-> int(match.groups[1]), symbol |-> match.groups[2]]
        ELSE [found |-> TRUE, quantity |-> int(match.groups[2]), symbol |-> match.groups[1]]
    ELSE extract_loop(patterns, i + 1, message)

\* lines 389-418
_extract_quantity_and_symbol(message, action) ==
  extract_loop(extract_patterns(action), 1, message)

\* line 441
common_words ==
  {<<"T", "H", "E">>,
   <<"A", "N", "D">>,
   <<"F", "O", "R">>,
   <<"A", "R", "E">>,
   <<"Y", "O", "U">>,
   <<"C", "A", "N">>,
   <<"G", "E", "T">>,
   <<"B", "U", "Y">>,
   <<"S", "E", "L", "L">>,
   <<"S", "H", "O", "W">>,
   <<"W", "H", "A", "T">>,
   <<"W", "H", "E", "N">>,
   <<"W", "H", "E", "R", "E">>,
   <<"W", "H", "Y">>,
   <<"H", "O", "W">>}

\* the characters of \w that a message can hold
WordChars ==
  Letters \cup CharSet(Digits)

\* lines 436-444: the runs of word characters of s that are 3 to 5 capital
\* letters and no common word, by position
valid_symbols(s) ==
  {p \in 1..Len(s) :
     /\ s[p] \in WordChars
     /\ p = 1 \/ s[p - 1] \notin WordChars
     /\ Run(s, p, WordChars) \in 3..5
     /\ Run(s, p, CharSet(UpperCase)) = Run(s, p, WordChars)
     /\ SubSeq(s, p, p + Run(s, p, WordChars) - 1) \notin common_words}

\* lines 420-449: the symbol, or <<>> for None; (?:of|for) with re.IGNORECASE is
\* the leftmost of the matches of the two words in the message in small letters
_extract_symbol(message) ==
  LET of_match == re_search(<<Lit(<<"o", "f">>), Ws, SymbolGroup>>, lower(message))
      for_match == re_search(<<Lit(<<"f", "o", "r">>), Ws, SymbolGroup>>, lower(message))
      quoted == re_search(<<Lit(<<"\"">>), SymbolGroup, Lit(<<"\"">>)>>, message)
      up == upper(message)
  IN IF of_match.ok /\ (~for_match.ok \/ of_match.start < for_match.start)
       THEN upper(of_match.groups[1])
     ELSE IF for_match.ok THEN upper(for_match.groups[1])
     ELSE IF quoted.ok THEN upper(quoted.groups[1])
     ELSE IF valid_symbols(up) # {}
       THEN LET p == Min(valid_symbols(up)) IN SubSeq(up, p, p + Run(up, p, WordChars) - 1)
     ELSE <<>>

(* ---------------------------- chatbot: process_message ----------------- *)
\* the messages a user may send: the commands of help_text (lines 57-73) and of
\* the examples of GET /chat/help, and some others
Messages ==
  {<<"B", "u", "y", " ", "1", "0", " ", "s", "h", "a", "r", "e", "s", " ", "o", "f", " ", "A", "A", "P", "L">>,
   <<"S", "e", "l", "l", " ", "5", " ", "M", "S", "F", "T">>,
   <<"B", "u", "y", " ", "T", "S", "L", "A", " ", "a", "t", " ", "m", "a", "r", "k", "e", "t">>,
   <<"W", "h", "a", "t", " ", "i", "s", " ", "t", "h", "e", " ", "p", "r", "i", "c", "e", " ", "o", "f", " ", "G", "O", "O", "G", "L", "?">>,
   <<"A", "n", "a", "l", "y", "z", "e", " ", "A", "A", "P", "L">>,
   <<"S", "h", "o", "w", " ", "m", "y", " ", "p", "o", "r", "t", "f", "o", "l", "i", "o">>,
   <<"O", "r", "d", "e", "r", " ", "h", "i", "s", "t", "o", "r", "y">>,
   <<"B", "u", "y", " ", "1", "0", "0", " ", "s", "h", "a", "r", "e", "s", " ", "o", "f", " ", "A", "A", "P", "L">>,
   <<"S", "e", "l", "l", " ", "5", "0", " ", "M", "S", "F", "T", " ", "a", "t", " ", "m", "a", "r", "k", "e", "t">>,
   <<"W", "h", "a", "t", "'", "s", " ", "t", "h", "e", " ", "c", "u", "r", "r", "e", "n", "t", " ", "p", "r", "i", "c", "e", " ", "o", "f", " ", "T", "S", "L", "A", "?">>,
   <<"A", "n", "a", "l", "y", "z", "e", " ", "G", "O", "O", "G", "L", " ", "f", "o", "r", " ", "m", "e">>,
   <<"S", "h", "o", "w", " ", "m", "y", " ", "p", "o", "r", "t", "f", "o", "l", "i", "o", " ", "s", "u", "m", "m", "a", "r", "y">>,
   <<"W", "h", "a", "t", " ", "i", "s", " ", "t", "h", "e", " ", "p", "r", "i", "c", "e", " ", "o", "f", " ", "T", "S", "L", "A", "?">>,
   <<"A", "n", "a", "l", "y", "z", "e", " ", "G", "O", "O", "G", "L">>,
   <<"H", "e", "l", "p">>,
   <<"S", "e", "l", "l", " ", "M", "S", "F", "T", " ", "a", "t", " ", "m", "a", "r", "k", "e", "t">>,
   <<"B", "u", "y", " ", "5", "0", " ", "A", "A", "P", "L", " ", "a", "t", " ", "m", "a", "r", "k", "e", "t">>,
   <<" ", "P", "e", "n", "d", "i", "n", "g", " ", "o", "r", "d", "e", "r", "s", " ">>,
   <<"G", "o", "o", "d", " ", "m", "o", "r", "n", "i", "n", "g">>}

\* the symbol a text spells, as the quote cache and the store hold it
symbol_of(s) ==
  CASE s = <<"A", "A", "P", "L">> -> "AAPL"
    [] s = <<"M", "S", "F", "T">> -> "MSFT"
    [] s = <<"T", "S", "L", "A">> -> "TSLA"
    [] s = <<"G", "O", "O", "G", "L">> -> "GOOGL"
    [] s = <<"5", "0">> -> "50"

\* what process_message computes from a message before it calls the service:
\* the message it works on (line 79), the handler it chooses (lines 82-110) and
\* the values the handlers extract (lines 170, 211, 252, 286), for every message
\* of Messages
Parsed ==
  [message \in Messages |->
     LET m == lower(strip(message)) IN
     [message |-> m,
      handler |-> handler_of(m),
      buy |-> _extract_quantity_and_symbol(m, <<"b", "u", "y">>),
      sell |-> _extract_quantity_and_symbol(m, <<"s", "e", "l", "l">>),
      symbol |-> _extract_symbol(m)]]

\* lines 166-246: _handle_buy_command and _handle_sell_command up to the
\* insert_one of place_order; the reply of an order that awaits insert_one is the
\* confirmation if place_order returns and the failure text if it raises
handle_order_command(t, handler, e, user_id, rows) ==
     IF ~e.found \/ e.quantity = 0 \/ e.symbol = <<>> THEN
       /\ Finish(t, "returned", NoId)
       /\ ret' = [ret EXCEPT ![t] = [handler |-> handler, reply |-> "please_specify"]]
       /\ cache' = cache
       /\ provider_called' = FALSE
     ELSE
       LET symbol == symbol_of(upper(e.symbol)) IN
       IF get_stock_data_raises(cache, now, symbol, rows) THEN
         /\ Finish(t, "returned", NoId)
         /\ ret' = [ret EXCEPT ![t] = [handler |-> handler, quantity |-> e.quantity,
                                       symbol |-> e.symbol, reply |-> "failed"]]
         /\ cache' = cache
         /\ provider_called' = TRUE
       ELSE
         LET stock_data == get_stock_data_result(cache, now, symbol, rows)
             order == [user_id |-> user_id, symbol |-> symbol,
                       order_type |-> IF handler = "_handle_buy_command" THEN BUY ELSE SELL,
                       quantity |-> e.quantity, price |-> stock_data.price,
                       total_amount |-> e.quantity * stock_data.price,
                       status |-> PENDING]
         IN /\ cache' = get_stock_data_cache(cache, now, symbol, rows)
            /\ provider_called' = ~CacheFresh(cache, now, symbol)
            /\ IF validation_fails(order) THEN
                 /\ Finish(t, "returned", NoId)
                 /\ ret' = [ret EXCEPT ![t] = [handler |-> handler, quantity |-> e.quantity,
                                               symbol |-> e.symbol, reply |-> "failed"]]
               ELSE IF db THEN
                 /\ Len(orders) + Cardinality({u \in Tasks : pc[u] = "place_insert"}) < MaxOrders
                 /\ pc' = [pc EXCEPT ![t] = "place_insert"]
                 /\ cur' = [cur EXCEPT ![t] = order]
                 /\ oid' = [oid EXCEPT ![t] = NoId]
                 /\ existing' = [existing EXCEPT ![t] = NoDoc]
                 /\ ret' = [ret EXCEPT ![t] = [handler |-> handler, quantity |-> e.quantity,
                                               symbol |-> e.symbol, reply |-> "awaits_insert"]]
               ELSE
                 /\ Finish(t, "returned", <<"order", now>>)
                 /\ ret' = [ret EXCEPT ![t] = [handler |-> handler, quantity |-> e.quantity,
                                               symbol |-> e.symbol, reply |-> "order_placed"]]

\* lines 248-280
handle_price_query(t, s, rows) ==
  /\ Finish(t, "returned", NoId)
  /\ IF s = <<>> THEN
       /\ ret' = [ret EXCEPT ![t] = [handler |-> "_handle_price_query",
                                     reply |-> "please_specify"]]
       /\ cache' = cache
       /\ provider_called' = FALSE
     ELSE IF get_stock_data_raises(cache, now, symbol_of(s), rows) THEN
       /\ ret' = [ret EXCEPT ![t] = [handler |-> "_handle_price_query", symbol |-> s,
                                     reply |-> "failed"]]
       /\ cache' = cache
       /\ provider_called' = TRUE
     ELSE
       /\ ret' = [ret EXCEPT ![t] =
                    [handler |-> "_handle_price_query", symbol |-> s, reply |-> "price",
                     price |-> get_stock_data_result(cache, now, symbol_of(s), rows).price]]
       /\ cache' = get_stock_data_cache(cache, now, symbol_of(s), rows)
       /\ provider_called' = ~CacheFresh(cache, now, symbol_of(s))

\* lines 282-324; get_stock_analytics reads the history from the provider and
\* raises when it has no row (stock_service.py lines 172-177)
handle_analytics_query(t, s, rows) ==
  /\ Finish(t, "returned", NoId)
  /\ cache' = cache
  /\ IF s = <<>> THEN
       /\ ret' = [ret EXCEPT ![t] = [handler |-> "_handle_analytics_query",
                                     reply |-> "please_specify"]]
       /\ provider_called' = FALSE
     ELSE
       /\ ret' = [ret EXCEPT ![t] = [handler |-> "_handle_analytics_query", symbol |-> s,
                                     reply |-> IF rows = <<>> THEN "failed" ELSE "analytics"]]
       /\ provider_called' = TRUE

\* lines 326-365, with lines 136-167 of stock_service.py
handle_portfolio_query(t, user_id, rows) ==
  LET docs == IF db THEN user_docs(portfolio, user_id) ELSE <<>>
      r == portfolio_loop(docs, cache, now, [s \in Symbols |-> rows])
  IN /\ Finish(t, "returned", NoId)
     /\ ret' = [ret EXCEPT ![t] =
                  [handler |-> "_handle_portfolio_query",
                   reply |-> IF r.portfolios = <<>> THEN "no_positions"
                             ELSE "portfolio_summary"]]
     /\ cache' = r.cache
     /\ provider_called' =
          \E i \in 1..Len(docs) : ~CacheFresh(cache, now, Normalize(docs[i].symbol))

\* lines 76-113: one chat message, from the route POST /chat to the reply or to
\* the insert_one of the order it places
process_message(t, message, user_id, rows) ==
  LET handler == Parsed[message].handler
  IN /\ pc[t] \in Final
     /\ op' = [op EXCEPT ![t] = "process_message"]
     /\ arg' = [arg EXCEPT ![t] = message]
     /\ IF handler \in {"_handle_buy_command", "_handle_sell_command"}
          THEN handle_order_command(t, handler,
                                    IF handler = "_handle_buy_command"
                                      THEN Parsed[message].buy ELSE Parsed[message].sell,
                                    user_id, rows)
        ELSE IF handler = "_handle_price_query"
          THEN handle_price_query(t, Parsed[message].symbol, rows)
        ELSE IF handler = "_handle_analytics_query"
          THEN handle_analytics_query(t, Parsed[message].symbol, rows)
        ELSE IF handler = "_handle_portfolio_query"
          THEN handle_portfolio_query(t, user_id, rows)
        ELSE
          /\ Finish(t, "returned", NoId)
          /\ ret' = [ret EXCEPT ![t] = [handler |-> handler, reply |-> handler]]
          /\ cache' = cache
          /\ provider_called' = FALSE
     /\ UNCHANGED <<now, db, orders, portfolio, applied, settled, calls, hist>>

(* ---------------------------- specifications --------------------------- *)
\* one step of task t, its inputs drawn from D (drafts) and O (store outcomes)
Step(t, D, O) ==
  \/ \E draft \in D, rows \in ProviderRows : place_order_begin(t, draft, rows)
  \/ \E outcome \in O : place_order_insert(t, outcome)
  \/ \E order_id \in OrderIds, outcome \in O : execute_order_update(t, order_id, outcome)
  \/ \E outcome \in O : execute_order_find(t, outcome)
  \/ \E outcome \in O : update_portfolio_find(t, outcome)
  \/ \E outcome \in O : update_portfolio_write(t, outcome)

\* concurrent callers, all trading one symbol
OneSymbolDrafts ==
  {d \in ValidDrafts : d.symbol = "AAPL"}

Next ==
  \E t \in Tasks : Step(t, OneSymbolDrafts, {"ok"})

Spec == Init /\ [][Next]_vars

\* one caller at a time: every call runs to completion before the next starts
NextSeq ==
  Step("t1", Drafts, StoreOutcomes)

SpecSeq == Init /\ [][NextSeq]_vars

\* one caller of the quote cache while the clock moves
NextQuote ==
  \/ \E symbol \in RawSymbols, rows \in ProviderRows : get_stock_data("t1", symbol, rows)
  \/ \E later \in Times : Tick(later)

SpecQuote == Init /\ [][NextQuote]_vars

\* one caller placing and executing buy orders and reading portfolios, the
\* clock moving once past the cache timeout; the store does not fail
PortfolioDrafts ==
  [user_id : PortfolioUsers, symbol : Symbols, order_type : {BUY},
   quantity : 1..MaxQty, price : Prices, status : {PENDING, EXECUTED}]

NextPortfolio ==
  \/ Step("t1", PortfolioDrafts, {"ok"})
  \/ \E user_id \in PortfolioUsers, rowsOf \in [Symbols -> ProviderRows] :
       get_portfolio("t1", user_id, "ok", rowsOf)
  \/ Tick(cache_timeout)

SpecPortfolio == Init /\ [][NextPortfolio]_vars

\* one caller asking for analytics
NextAnalytics ==
  \E technical \in Technicals, fundamental \in Fundamentals :
    get_stock_analytics("t1", technical, fundamental)

SpecAnalytics == Init /\ [][NextAnalytics]_vars

\* a history of closing prices, then its indicators
NextIndicators ==
  \/ \E close \in Closes : history_bar(close)
  \/ calculate_technical_indicators("t1")

SpecIndicators == Init /\ [][NextIndicators]_vars

\* one user of the chat route; the store may fail
NextChat ==
  \/ \E message \in Messages, rows \in ProviderRows :
       process_message("t1", message, "u1", rows)
  \/ \E outcome \in StoreOutcomes : place_order_insert("t1", outcome)

SpecChat == Init /\ [][NextChat]_vars

(* ---------------------------- properties ------------------------------- *)
KeyFilter(u, s) ==
  [user_id |-> u, symbol |-> s]

\* the ledger-update rule applied in one piece: read, then write what was read
LedgerRule(pf, order) ==
  UpdateWrite(pf, order, find_one(pf, portfolio_filter(order)))

\* the position stores obtained by applying the rule to the orders S one at a time
RECURSIVE SerialResults(_)
SerialResults(S) ==
  IF S = {} THEN {<<>>}
  ELSE UNION {{LedgerRule(pf, orders[i]) : pf \in SerialResults(S \ {i})} : i \in S}

RECURSIVE SumQuantity(_)
SumQuantity(S) ==
  IF S = {} THEN 0
  ELSE LET i == CHOOSE x \in S : TRUE IN orders[i].quantity + SumQuantity(S \ {i})

RECURSIVE SumAmount(_)
SumAmount(S) ==
  IF S = {} THEN 0
  ELSE LET i == CHOOSE x \in S : TRUE IN orders[i].total_amount + SumAmount(S \ {i})

\* the settled orders of one (user, symbol)
KeyIds(u, s) ==
  {i \in settled : orders[i].user_id = u /\ orders[i].symbol = s}

\* C1: whatever the interleaving of the ledger updates, the stored positions are
\* those obtained by applying the ledger-update rule to the same orders one at a
\* time in some serial order; no update is lost.
C1_SerialLedger ==
  portfolio \in SerialResults(settled)

\* C2: a sell for which no position exists, or whose quantity exceeds the held
\* quantity, makes the call fail: the call never returns the order as executed.
C2_OversellRaises ==
  [][\A t \in Tasks :
       (/\ pc[t] = "update_find"
        /\ pc'[t] \in Final
        /\ cur[t].order_type = SELL
        /\ LET old == find_one(portfolio, portfolio_filter(cur[t]))
           IN old = NoDoc \/ cur[t].quantity > old.quantity)
       => pc'[t] = "raised"]_vars

\* C3: execute_order succeeds only for the id of a stored order whose status is
\* pending; an order that is executed, cancelled or failed keeps its status and
\* no call on it or on an unknown id goes on to the ledger update.
C3_ExecuteOnlyPending ==
  [][/\ \A i \in DOMAIN orders :
          orders[i].status # PENDING =>
            /\ orders'[i].status = orders[i].status
            /\ \A t \in Tasks :
                 ~(pc[t] \in Final /\ pc'[t] = "execute_find" /\ oid'[t] = i)
     /\ \A t \in Tasks :
          (pc[t] \in Final /\ pc'[t] = "execute_find") => oid'[t] \in DOMAIN orders]_vars

\* C4: across every interleaving of place_order and execute_order calls, the
\* ledger-update rule is applied at most once per order.
C4_AppliedAtMostOnce ==
  \A i \in OrderIds : applied[i] <= 1

\* C4 witness: an execute_order call on an order whose ledger update was already
\* made has been rejected.
C4_Witness ==
  \E t \in Tasks :
    /\ db
    /\ op[t] = "execute_order"
    /\ pc[t] = "raised"
    /\ oid[t] \in DOMAIN orders
    /\ applied[oid[t]] = 1

\* C5: execute_order returns an order only if the ledger-update rule for it ran
\* without a store failure; a failed position read or write is not swallowed.
C5_FailurePropagates ==
  \A t \in Tasks :
    (db /\ op[t] = "execute_order" /\ pc[t] = "returned") => oid[t] \in settled

\* C6: after buys only, applied one after the other to a (user, symbol) without
\* a position, the stored position has quantity = sum of the order quantities,
\* total_invested = sum of the total_amounts, average_price = total_invested / quantity.
C6_BuySums ==
  \A u \in Users, s \in Symbols :
    LET ids == KeyIds(u, s)
        m == MatchIdx(portfolio, KeyFilter(u, s))
    IN (ids # {} /\ \A i \in ids : orders[i].order_type = BUY) =>
         /\ Cardinality(m) = 1
         /\ \A k \in m :
              /\ portfolio[k].quantity = SumQuantity(ids)
              /\ portfolio[k].total_invested = F(SumAmount(ids))
              /\ portfolio[k].average_price = FDiv(F(SumAmount(ids)), F(SumQuantity(ids)))

\* C6 witness: two buys at different prices have been applied to one position.
C6_Witness ==
  \E i, j \in settled :
    /\ orders[i].order_type = BUY /\ orders[j].order_type = BUY
    /\ orders[i].user_id = orders[j].user_id /\ orders[i].symbol = orders[j].symbol
    /\ orders[i].price # orders[j].price
    /\ find_one(portfolio, portfolio_filter(orders[i])) # NoDoc

\* C7: a sell of q units applied to a position of Q > q units leaves average_price
\* as it was, sets quantity to Q - q and takes total_invested * q / Q off
\* total_invested, whatever the price of the sell order.
C7_PartialSell ==
  [][\A t \in Tasks :
       (/\ pc[t] = "update_write"
        /\ cur[t].order_type = SELL
        /\ oid[t] \notin settled
        /\ oid[t] \in settled')
       => LET old == find_one(portfolio, portfolio_filter(cur[t]))
              new == find_one(portfolio', portfolio_filter(cur[t]))
              q == cur[t].quantity
          IN (old # NoDoc /\ old.quantity > q) =>
               /\ new # NoDoc
               /\ new.quantity = old.quantity - q
               /\ new.average_price = old.average_price
               /\ new.total_invested =
                    FSub(old.total_invested,
                         FDiv(FMul(old.total_invested, F(q)), F(old.quantity)))]_vars

\* C7 witness: a partial sell, priced differently from the buy, has been applied.
C7_Witness ==
  \E i, j \in settled :
    /\ orders[i].order_type = SELL /\ orders[j].order_type = BUY
    /\ orders[i].user_id = orders[j].user_id /\ orders[i].symbol = orders[j].symbol
    /\ orders[i].price # orders[j].price
    /\ orders[i].quantity < orders[j].quantity
    /\ LET p == find_one(portfolio, portfolio_filter(orders[i]))
       IN /\ p # NoDoc
          /\ p.quantity = orders[j].quantity - orders[i].quantity
          /\ p.average_price = F(orders[j].price)

\* C8: every stored position has quantity >= 1; a sell of exactly the held
\* quantity deletes the record.
C8_PositiveQuantity ==
  \A k \in 1..Len(portfolio) : portfolio[k].quantity >= 1

\* C8 witness: a sell of the whole position has been applied and the record is gone.
C8_Witness ==
  \E i, j \in settled :
    /\ orders[i].order_type = SELL /\ orders[j].order_type = BUY
    /\ orders[i].user_id = orders[j].user_id /\ orders[i].symbol = orders[j].symbol
    /\ orders[i].quantity = orders[j].quantity
    /\ find_one(portfolio, portfolio_filter(orders[i])) = NoDoc

\* C9: a sell whose quantity exceeds the held quantity, or without a position,
\* changes no position: the read is followed by no write and the call ends.
C9_OversellFrame ==
  [][\A t \in Tasks :
       (/\ pc[t] = "update_find"
        /\ pc'[t] # "update_find"
        /\ cur[t].order_type = SELL
        /\ LET old == find_one(portfolio, portfolio_filter(cur[t]))
           IN old = NoDoc \/ cur[t].quantity > old.quantity)
       => (portfolio' = portfolio /\ pc'[t] \in Final)]_vars

\* C9 witness: a sell of more units than the position holds has run, and the
\* position is still there.
C9_Witness ==
  \E i \in settled :
    /\ orders[i].order_type = SELL
    /\ LET p == find_one(portfolio, portfolio_filter(orders[i]))
       IN p # NoDoc /\ p.quantity < orders[i].quantity

\* C10: the store holds at most one position record per (user, symbol).
C10_OneRecordPerKey ==
  \A k, l \in 1..Len(portfolio) :
    (portfolio[k].user_id = portfolio[l].user_id /\ portfolio[k].symbol = portfolio[l].symbol)
      => k = l

(* ---------------------------- quote cache properties ------------------- *)
\* C11: a get_stock_data call made 300 seconds or more after the cached entry
\* of its symbol was stored (more than a day included) calls the provider and
\* does not return the cached StockData
C11_ExpiredRefetch ==
  [][Len(calls') > Len(calls) =>
       LET c == calls'[Len(calls')]
           k == Normalize(c.symbol)
       IN (k \in DOMAIN cache /\ c.time - cache[k].timestamp >= cache_timeout)
            => (c.fetched /\ c.result # cache[k].data)]_vars

\* C12: of two get_stock_data calls for the same normalized symbol made less
\* than 300 seconds apart, the first of which returned a quote, at most one
\* calls the provider, and when the first one fetched its quote the second
\* returns that same quote
C12_FreshShared ==
  \A i, j \in 1..Len(calls) :
    (/\ i < j
     /\ Normalize(calls[i].symbol) = Normalize(calls[j].symbol)
     /\ calls[j].time - calls[i].time < cache_timeout
     /\ calls[i].result # NoDoc)
    => /\ ~(calls[i].fetched /\ calls[j].fetched)
       /\ calls[i].fetched => calls[j].result = calls[i].result

C12_Witness ==
  \E i, j \in 1..Len(calls) :
    /\ i < j
    /\ calls[i].symbol # calls[j].symbol
    /\ Normalize(calls[i].symbol) = Normalize(calls[j].symbol)
    /\ calls[j].time > calls[i].time
    /\ calls[j].time - calls[i].time < cache_timeout
    /\ calls[i].fetched
    /\ calls[i].result # NoDoc
    /\ ~calls[j].fetched
    /\ calls[j].result = calls[i].result

(* ---------------------------- place_order properties ------------------- *)
\* C13: the order place_order persists carries the price of the latest quote
\* of its symbol, and total_amount = quantity * that price
C13_Repriced ==
  [][\A t \in Tasks :
       (pc[t] \in Final /\ pc'[t] = "place_insert") =>
         LET q == cache'[Normalize(cur'[t].symbol)].data IN
         /\ cur'[t].price = q.price
         /\ cur'[t].total_amount = cur'[t].quantity * q.price]_vars

\* C14: a place_order whose draft has quantity <= 0 or price <= 0 raises and
\* has no effect (no order stored, no position changed, no provider call, no
\* cache write), and no such draft ever reaches the insert into orders
C14_InvalidRejected ==
  [][\A t \in Tasks :
       /\ (/\ pc[t] \in Final
           /\ op'[t] = "place_order"
           /\ arg'[t] # NoDoc
           /\ (arg'[t].quantity <= 0 \/ arg'[t].price <= 0))
          => /\ pc'[t] = "raised"
             /\ orders' = orders
             /\ portfolio' = portfolio
             /\ cache' = cache
             /\ ~provider_called'
       /\ (pc[t] \in Final /\ pc'[t] = "place_insert")
          => (cur'[t].quantity > 0 /\ cur'[t].price > 0)]_vars

C14_Witness ==
  /\ op["t1"] = "place_order"
  /\ pc["t1"] = "raised"
  /\ arg["t1"] # NoDoc
  /\ arg["t1"].quantity > 0
  /\ arg["t1"].price <= 0
  /\ orders # <<>>
  /\ portfolio # <<>>
  /\ cache # <<>>

\* C15: when the insert of place_order succeeds, a draft of status executed
\* goes on to the ledger update before the call returns, and a draft of any
\* other status is stored with status pending, positions unchanged
C15_PendingUnlessExecuted ==
  [][\A t \in Tasks :
       (pc[t] = "place_insert" /\ Len(orders') = Len(orders) + 1) =>
         IF cur[t].status = EXECUTED
           THEN pc'[t] = "update_find" /\ applied'[Len(orders')] = 1
           ELSE /\ pc'[t] = "returned"
                /\ orders'[Len(orders')].status = PENDING
                /\ portfolio' = portfolio]_vars

\* C17: without a database, two place_order calls never return the same id
C17_DegradedIdsDiffer ==
  \A t, u \in Tasks :
    (/\ t # u
     /\ ~db
     /\ op[t] = "place_order" /\ op[u] = "place_order"
     /\ pc[t] = "returned" /\ pc[u] = "returned")
    => oid[t] # oid[u]

(* ---------------------------- get_portfolio properties ----------------- *)
\* C16: without a database execute_order and get_portfolio both fail
C16_StoreRequired ==
  \A t \in Tasks :
    (/\ ~db
     /\ op[t] \in {"execute_order", "get_portfolio"}
     /\ pc[t] \in {"returned", "raised"})
    => pc[t] = "raised"

\* the entries get_portfolio owes user u: one per stored position of u whose
\* symbol has a quote after the call, valued at that quote
ValuedPositions(pf, u, c, t) ==
  LET docs == SelectSeq(pf, LAMBDA d : d.user_id = u /\ CacheFresh(c, t, Normalize(d.symbol)))
  IN [i \in 1..Len(docs) |->
        LET value == FMul(F(docs[i].quantity), F(c[Normalize(docs[i].symbol)].data.price))
        IN [user_id |-> docs[i].user_id, symbol |-> docs[i].symbol,
            quantity |-> docs[i].quantity, average_price |-> docs[i].average_price,
            total_invested |-> docs[i].total_invested, current_value |-> value,
            unrealized_pnl |-> FSub(value, docs[i].total_invested)]]

\* C18: with the store available get_portfolio returns, never raising on a
\* failed quote fetch, exactly one entry per stored position of the user whose
\* quote fetch succeeded, with current_value = quantity * quote price and
\* unrealized_pnl = current_value - total_invested, and writes no position
C18_PortfolioValued ==
  [][\A t \in Tasks :
       (pc[t] \in Final /\ op'[t] = "get_portfolio" /\ now' = now /\ db) =>
         /\ pc'[t] = "returned"
         /\ ret'[t] = ValuedPositions(portfolio, arg'[t], cache', now)
         /\ portfolio' = portfolio]_vars

C18_Witness ==
  /\ op["t1"] = "get_portfolio"
  /\ pc["t1"] = "returned"
  /\ Len(user_docs(portfolio, arg["t1"])) = 2
  /\ Len(portfolio) = 2
  /\ Len(ret["t1"]) = 1
  /\ ret["t1"][1].symbol = "MSFT"
  /\ ret["t1"][1].unrealized_pnl[1] < 0

(* ---------------------------- analytics properties --------------------- *)
Missing(entry) ==
  entry \in {Absent, Null}

Above(entry, bound) ==
  ~Missing(entry) /\ FLt(bound, entry.v)

Below(entry, bound) ==
  ~Missing(entry) /\ FLt(entry.v, bound)

\* C19: for rsi, pe_ratio and debt_to_equity each a number or missing (key
\* absent or value None), the risk score is
\* min(100, 50 + 20*[rsi < 20 or rsi > 80] + 15*[pe > 30] + 25*[d/e > 1.5]),
\* a missing value adding nothing
C19_RiskScore ==
  \A t \in Tasks :
    (op[t] = "get_stock_analytics" /\ pc[t] = "returned") =>
      LET tech == ret[t].technical_indicators
          fund == ret[t].fundamental_metrics
          raw == 50 + (IF Below(tech.rsi, F(20)) \/ Above(tech.rsi, F(80)) THEN 20 ELSE 0)
                    + (IF Above(fund.pe_ratio, F(30)) THEN 15 ELSE 0)
                    + (IF Above(fund.debt_to_equity, <<3, 2>>) THEN 25 ELSE 0)
      IN ret[t].risk_score = IF raw > 100 THEN 100 ELSE raw

\* C20: with RSI in [30, 70], P/E in [15, 25] and debt-to-equity <= 1 the
\* recommendations are the MACD note followed by the neutral note
C20_NeutralAfterMacd ==
  \A t \in Tasks :
    (op[t] = "get_stock_analytics" /\ pc[t] = "returned") =>
      LET tech == ret[t].technical_indicators
          fund == ret[t].fundamental_metrics
          macd == IF tech.macd = Absent THEN F(0) ELSE tech.macd.v
          macd_signal == IF tech.macd_signal = Absent THEN F(0) ELSE tech.macd_signal.v
      IN (/\ ~Missing(tech.rsi) /\ ~Below(tech.rsi, F(30)) /\ ~Above(tech.rsi, F(70))
          /\ ~Missing(fund.pe_ratio)
          /\ ~Below(fund.pe_ratio, F(15)) /\ ~Above(fund.pe_ratio, F(25))
          /\ ~Missing(fund.debt_to_equity) /\ ~Above(fund.debt_to_equity, F(1)))
         => ret[t].recommendations =
              <<IF FLt(macd_signal, macd) THEN BULLISH ELSE BEARISH, NEUTRAL>>

\* C21: for numeric inputs the recommendations are, in this order, at most one
\* RSI note (oversold iff rsi < 30, overbought iff rsi > 70), exactly one MACD
\* note (bullish iff macd > macd_signal), at most one P/E note (value iff
\* pe_ratio < 15, caution iff pe_ratio > 25) and the debt note iff
\* debt_to_equity > 1
C21_OrderedNotes ==
  \A t \in Tasks :
    (op[t] = "get_stock_analytics" /\ pc[t] = "returned") =>
      LET tech == ret[t].technical_indicators
          fund == ret[t].fundamental_metrics
      IN (/\ tech.rsi.kind = "num" /\ tech.macd.kind = "num" /\ tech.macd_signal.kind = "num"
          /\ fund.pe_ratio.kind = "num" /\ fund.debt_to_equity.kind = "num")
         => ret[t].recommendations =
              (IF Below(tech.rsi, F(30)) THEN <<OVERSOLD>>
               ELSE IF Above(tech.rsi, F(70)) THEN <<OVERBOUGHT>> ELSE <<>>)
              \o <<IF FLt(tech.macd_signal.v, tech.macd.v) THEN BULLISH ELSE BEARISH>>
              \o (IF Below(fund.pe_ratio, F(15)) THEN <<LOW_PE>>
                  ELSE IF Above(fund.pe_ratio, F(25)) THEN <<HIGH_PE>> ELSE <<>>)
              \o (IF Above(fund.debt_to_equity, F(1)) THEN <<HIGH_DEBT>> ELSE <<>>)

C21_Witness ==
  /\ op["t1"] = "get_stock_analytics"
  /\ pc["t1"] = "returned"
  /\ ret["t1"].technical_indicators.rsi = Num(F(15))
  /\ ret["t1"].fundamental_metrics.pe_ratio = Num(F(35))
  /\ ret["t1"].fundamental_metrics.debt_to_equity = Num(F(2))
  /\ ret["t1"].recommendations = <<OVERSOLD, BULLISH, HIGH_PE, HIGH_DEBT>>

\* seq contains x
Contains(seq, x) ==
  \E i \in 1..Len(seq) : seq[i] = x

\* C28: for inputs that are numbers or missing the fallback note is never
\* returned, and a None pe_ratio does not suppress the debt note
C28_NullTolerated ==
  \A t \in Tasks :
    (op[t] = "get_stock_analytics" /\ pc[t] = "returned") =>
      /\ ~Contains(ret[t].recommendations, UNABLE)
      /\ (/\ ret[t].technical_indicators.rsi # Null
          /\ ret[t].fundamental_metrics.pe_ratio = Null
          /\ Above(ret[t].fundamental_metrics.debt_to_equity, F(1)))
         => Contains(ret[t].recommendations, HIGH_DEBT)

(* ---------------------------- further properties ----------------------- *)
\* C29: after a get_stock_data call that failed because the provider returned
\* no rows (which writes no cache entry), the next call for that symbol calls
\* the provider again
C29_FailedFetchRetried ==
  \A i, j \in 1..Len(calls) :
    (/\ i < j
     /\ calls[i].result = NoDoc
     /\ Normalize(calls[j].symbol) = Normalize(calls[i].symbol)
     /\ \A k \in (i + 1)..(j - 1) :
          Normalize(calls[k].symbol) # Normalize(calls[i].symbol))
    => calls[j].fetched

\* C22: no step removes an order record, and the stored status of an order
\* changes only from pending to executed, by a step of execute_order
C22_StatusMonotone ==
  [][\A i \in DOMAIN orders :
       /\ i \in DOMAIN orders'
       /\ \/ orders'[i] = orders[i]
          \/ /\ orders[i].status = PENDING
             /\ orders'[i] = [orders[i] EXCEPT !.status = EXECUTED]
             /\ \E t \in Tasks : pc[t] \in Final /\ op'[t] = "execute_order"
                                 /\ pc'[t] = "execute_find" /\ oid'[t] = i]_vars

(* ---------------------------- indicator properties --------------------- *)
IndicatorsOf(t) ==
  op[t] = "_calculate_technical_indicators" /\ pc[t] = "returned"

\* no closing price of the trailing n deltas is below the one before it
NoDecrease(closes, n) ==
  \A i \in (Len(closes) - n + 1)..Len(closes) : closes[i] >= closes[i - 1]

\* C23: with 15 bars or more and no decrease among the trailing 14 deltas (a
\* flat series included) the rsi is 100, and for every non-empty history the
\* rsi lies in [0, 100]
C23_RsiNoLoss ==
  \A t \in Tasks :
    (IndicatorsOf(t) /\ hist # <<>>) =>
      /\ ~FLt(ret[t].rsi, F(0)) /\ ~FLt(F(100), ret[t].rsi)
      /\ (Len(hist) >= 15 /\ NoDecrease(hist, 14)) => ret[t].rsi = F(100)

\* closes[i] + ... + closes[Len(closes)]
RECURSIVE SumFrom(_, _)
SumFrom(closes, i) ==
  IF i > Len(closes) THEN 0 ELSE closes[i] + SumFrom(closes, i + 1)

\* the mean of the trailing min(Len(closes), window) closing prices
TrailingMean(closes, window) ==
  LET n == IF Len(closes) < window THEN Len(closes) ELSE window
  IN FNorm(SumFrom(closes, Len(closes) - n + 1), n)

\* C24: for a non-empty history sma_20 (sma_50) is the mean of the closing
\* prices of the trailing min(n, 20) (min(n, 50)) bars
C24_SmaAvailableBars ==
  \A t \in Tasks :
    (IndicatorsOf(t) /\ hist # <<>>) =>
      /\ ret[t].sma_20 = TrailingMean(hist, 20)
      /\ ret[t].sma_50 = TrailingMean(hist, 50)

\* C25: for a history shorter than every window the call returns all eight
\* keys with sma_20 = sma_50 = 0, rsi = 50 and bb_middle = bb_upper = bb_lower = 0
C25_ShortHistory ==
  \A t \in Tasks :
    (IndicatorsOf(t) /\ Len(hist) >= 1 /\ Len(hist) < 14) =>
      /\ DOMAIN ret[t] = {"sma_20", "sma_50", "rsi", "macd", "macd_signal",
                          "bb_upper", "bb_lower", "bb_middle"}
      /\ ret[t].sma_20 = F(0) /\ ret[t].sma_50 = F(0)
      /\ ret[t].rsi = F(50)
      /\ ret[t].bb_middle = F(0) /\ ret[t].bb_upper = F(0) /\ ret[t].bb_lower = F(0)

C25_Witness ==
  /\ IndicatorsOf("t1")
  /\ hist = <<10, 11, 10, 11, 11>>
  /\ ret["t1"].sma_20 = F(0)

\* the commands help_text documents, each with the handler of the intent it is
\* documented under
Documented ==
  {[message |-> <<"B", "u", "y", " ", "1", "0", " ", "s", "h", "a", "r", "e", "s", " ", "o", "f", " ", "A", "A", "P", "L">>,
    handler |-> "_handle_buy_command"],
   [message |-> <<"S", "e", "l", "l", " ", "5", " ", "M", "S", "F", "T">>,
    handler |-> "_handle_sell_command"],
   [message |-> <<"B", "u", "y", " ", "T", "S", "L", "A", " ", "a", "t", " ", "m", "a", "r", "k", "e", "t">>,
    handler |-> "_handle_buy_command"],
   [message |-> <<"W", "h", "a", "t", " ", "i", "s", " ", "t", "h", "e", " ", "p", "r", "i", "c", "e", " ", "o", "f", " ", "G", "O", "O", "G", "L", "?">>,
    handler |-> "_handle_price_query"],
   [message |-> <<"A", "n", "a", "l", "y", "z", "e", " ", "A", "A", "P", "L">>,
    handler |-> "_handle_analytics_query"],
   [message |-> <<"S", "h", "o", "w", " ", "m", "y", " ", "p", "o", "r", "t", "f", "o", "l", "i", "o">>,
    handler |-> "_handle_portfolio_query"],
   [message |-> <<"O", "r", "d", "e", "r", " ", "h", "i", "s", "t", "o", "r", "y">>,
    handler |-> "_handle_orders_query"],
   [message |-> <<"B", "u", "y", " ", "1", "0", "0", " ", "s", "h", "a", "r", "e", "s", " ", "o", "f", " ", "A", "A", "P", "L">>,
    handler |-> "_handle_buy_command"],
   [message |-> <<"S", "e", "l", "l", " ", "5", "0", " ", "M", "S", "F", "T", " ", "a", "t", " ", "m", "a", "r", "k", "e", "t">>,
    handler |-> "_handle_sell_command"],
   [message |-> <<"W", "h", "a", "t", "'", "s", " ", "t", "h", "e", " ", "c", "u", "r", "r", "e", "n", "t", " ", "p", "r", "i", "c", "e", " ", "o", "f", " ", "T", "S", "L", "A", "?">>,
    handler |-> "_handle_price_query"],
   [message |-> <<"A", "n", "a", "l", "y", "z", "e", " ", "G", "O", "O", "G", "L", " ", "f", "o", "r", " ", "m", "e">>,
    handler |-> "_handle_analytics_query"],
   [message |-> <<"S", "h", "o", "w", " ", "m", "y", " ", "p", "o", "r", "t", "f", "o", "l", "i", "o", " ", "s", "u", "m", "m", "a", "r", "y">>,
    handler |-> "_handle_portfolio_query"]}

\* task t has processed a chat message
Processed(t) ==
  op[t] = "process_message"

\* C26: every command documented in the help text is answered by the handler of
\* its own intent, none of them ("Order history" in particular) by an earlier
\* check such as the greeting or the help
C26_DocumentedRouted ==
  \A t \in Tasks, d \in Documented :
    (Processed(t) /\ arg[t] = d.message) => ret[t].handler = d.handler

\* the market orders "buy|sell N SYMBOL at market" and "buy|sell SYMBOL at
\* market" (quantity 1), each with the quantity and the symbol it names
MarketOrders ==
  {[message |-> <<"S", "e", "l", "l", " ", "5", "0", " ", "M", "S", "F", "T", " ", "a", "t", " ", "m", "a", "r", "k", "e", "t">>,
    quantity |-> 50, symbol |-> <<"M", "S", "F", "T">>],
   [message |-> <<"B", "u", "y", " ", "5", "0", " ", "A", "A", "P", "L", " ", "a", "t", " ", "m", "a", "r", "k", "e", "t">>,
    quantity |-> 50, symbol |-> <<"A", "A", "P", "L">>],
   [message |-> <<"B", "u", "y", " ", "T", "S", "L", "A", " ", "a", "t", " ", "m", "a", "r", "k", "e", "t">>,
    quantity |-> 1, symbol |-> <<"T", "S", "L", "A">>],
   [message |-> <<"S", "e", "l", "l", " ", "M", "S", "F", "T", " ", "a", "t", " ", "m", "a", "r", "k", "e", "t">>,
    quantity |-> 1, symbol |-> <<"M", "S", "F", "T">>]}

\* C27: for a market order the handler works on the quantity and the symbol
\* the message names: N and SYMBOL for "buy|sell N SYMBOL at market", 1 and
\* SYMBOL for "buy|sell SYMBOL at market"
C27_MarketOrderExtracted ==
  \A t \in Tasks, d \in MarketOrders :
    (Processed(t) /\ arg[t] = d.message) =>
      /\ "quantity" \in DOMAIN ret[t]
      /\ ret[t].quantity = d.quantity
      /\ upper(ret[t].symbol) = d.symbol

====
